---- MODULE Spec2Model ----
(***************************************************************************)
(* A model of md2pdf.py: the Markdown to PDF converter with GitHub alerts  *)
(* and optional IEE branding.                                              *)
(*                                                                         *)
(* Text is a sequence of tokens.  A token is one character (">", " ",      *)
(* "\n", "[", "!", "]") or one word, a maximal run of letters and digits   *)
(* ("NOTE", "Hello").  The regular expressions of the program only look    *)
(* inside a word to compare it, ignoring case, with the five alert kinds,  *)
(* which Lower does.                                                       *)
(*                                                                         *)
(* An Optional value is a sequence of length at most one: <<>> is None.    *)
(***************************************************************************)
EXTENDS Integers, Sequences, FiniteSets, TLC

VARIABLES
    pc,           \* main: the statement the run is at
    status,       \* main: "running", "exit0", "exit1" or "raised"
    inputExists,  \* file system: os.path.exists(args.input)
    iee,          \* args.iee
    themeArg,     \* args.theme
    cfgFile,      \* file system: the file at args.config
    logoFiles,    \* file system: the state of each logo file
    mdFile,       \* file system: the text of the input Markdown file
    theme,        \* main: Optional[ThemeConfig]
    md_content,   \* convert_and_style: the text read
    processed,    \* convert_and_style: the preprocessed text
    html_body,    \* convert_and_style: the converted body
    html_doc,     \* convert_and_style: the assembled document
    tempFile,     \* file system: the temporary HTML file, "absent", "empty" or "written"
    pdfFile,      \* file system: whether the output PDF was written
    stdout,       \* what the run printed
    trace,        \* the stages the run has completed, in order
    call,         \* a direct call of one function: its name and arguments
    ret,          \* Optional: what the direct call returned
    runs,         \* invocations of main running at the same time: the state of each
    cwd           \* file system: the temporary files of the directory the invocations share

vars == <<pc, status, inputExists, iee, themeArg, cfgFile, logoFiles, mdFile,
          theme, md_content, processed, html_body, html_doc, tempFile, pdfFile,
          stdout, trace, call, ret, runs, cwd>>

mainVars == <<pc, status, inputExists, iee, themeArg, cfgFile, logoFiles, mdFile,
              theme, md_content, processed, html_body, html_doc, tempFile,
              pdfFile, stdout, trace>>

(***************************************************************************)
(* Bounds of the model.                                                    *)
(***************************************************************************)
\* The number of lines of a Markdown text given to preprocess_github_alerts.
MaxLines == 3

\* The number of keys a section of a configuration file holds.
MaxKeys == 2

(***************************************************************************)
(* Text helpers: what Python's str and re do on token sequences.           *)
(***************************************************************************)
\* \s of the re module, over the characters of the model.
IsSpace(c) == c \in {" ", "\n", "\t"}

\* The lower-cased word (str.lower, and re.IGNORECASE on the kind).
Lower(w) ==
    CASE w \in {"NOTE", "Note", "note"} -> "note"
      [] w \in {"TIP", "tip"} -> "tip"
      [] w \in {"IMPORTANT", "important"} -> "important"
      [] w \in {"WARNING", "Warning", "warning"} -> "warning"
      [] w \in {"CAUTION", "caution"} -> "caution"
      [] w = "FOO" -> "foo"
      [] OTHER -> w

\* str.capitalize of a lower-cased word.
Capitalize(w) ==
    CASE w = "note" -> "Note"
      [] w = "tip" -> "Tip"
      [] w = "important" -> "Important"
      [] w = "warning" -> "Warning"
      [] w = "caution" -> "Caution"
      [] w = "foo" -> "Foo"
      [] OTHER -> w

\* ALERT_ICONS: the SVG icon of each kind (the markup is abbreviated).
ALERT_ICONS ==
    [k \in {"note", "tip", "important", "warning", "caution"} |->
        "<svg class=\"octicon\" " \o k \o ">"]

\* ALERT_TITLES
ALERT_TITLES ==
    [k \in {"note", "tip", "important", "warning", "caution"} |-> Capitalize(k)]

\* (NOTE|TIP|IMPORTANT|WARNING|CAUTION) under re.IGNORECASE
KindAnyWordMutant(w) == ~IsSpace(w) /\ w \notin {">", "[", "!", "]"}

KindMatches(w) == Lower(w) \in {"note", "tip", "important", "warning", "caution"}

\* The first index >= i of t that holds no whitespace, Len(t) + 1 if none:
\* where a greedy \s* started at i ends.
RECURSIVE SkipSpaces(_, _)
SkipSpaces(t, i) ==
    IF i <= Len(t) /\ IsSpace(t[i]) THEN SkipSpaces(t, i + 1) ELSE i

\* The last index in i..j of t that holds a line break, 0 if none: the line
\* break that \s*\n ends on after \s* has given back what it must.
RECURSIVE LastNewline(_, _, _)
LastNewline(t, i, j) ==
    IF j < i THEN 0
    ELSE IF t[j] = "\n" THEN j
    ELSE LastNewline(t, i, j - 1)

\* The first index >= i of t that holds a line break, Len(t) + 1 if none:
\* where .* started at i ends.
RECURSIVE LineEnd(_, _)
LineEnd(t, i) ==
    IF i <= Len(t) /\ t[i] # "\n" THEN LineEnd(t, i + 1) ELSE i

\* ^ under re.MULTILINE
LineStart(t, i) == i = 1 \/ (i > 1 /\ t[i - 1] = "\n")

\* ((?:>.*(?:\n|$))*) started at p: the index after the last quoted line.
RECURSIVE BodyEnd(_, _)
BodyEnd(t, p) ==
    IF p <= Len(t) /\ t[p] = ">"
    THEN LET q == LineEnd(t, p + 1)
         IN  IF q <= Len(t) THEN BodyEnd(t, q + 1) ELSE Len(t) + 1
    ELSE p

\* pattern.match at index i of t: whether it matches, and then the index of
\* group 1, the span of group 2 and the index after the match.
MatchAt(t, i) ==
    LET j  == SkipSpaces(t, i + 1)
        k  == SkipSpaces(t, j + 4)
        nl == LastNewline(t, j + 4, k - 1)
        head == /\ LineStart(t, i)
                /\ t[i] = ">"
                /\ j + 3 <= Len(t)
                /\ t[j] = "["
                /\ t[j + 1] = "!"
                /\ KindMatches(t[j + 2])
                /\ t[j + 3] = "]"
    IN  IF head /\ nl # 0
        THEN [ok |-> TRUE, start |-> i, kind |-> j + 2,
              bodyStart |-> nl + 1, end |-> BodyEnd(t, nl + 1)]
        ELSE [ok |-> FALSE, start |-> i, kind |-> 0, bodyStart |-> 0, end |-> i]

\* str.split("\n")
RECURSIVE SplitLines(_)
SplitLines(s) ==
    LET q == LineEnd(s, 1)
    IN  IF q > Len(s) THEN <<s>>
        ELSE <<SubSeq(s, 1, q - 1)>> \o SplitLines(SubSeq(s, q + 1, Len(s)))

\* "\n".join(lines)
RECURSIVE JoinLines(_)
JoinLines(ls) ==
    IF Len(ls) = 0 THEN <<>>
    ELSE IF Len(ls) = 1 THEN ls[1]
    ELSE ls[1] \o <<"\n">> \o JoinLines(Tail(ls))

\* str.strip()
RECURSIVE LStrip(_)
LStrip(s) == IF Len(s) > 0 /\ IsSpace(s[1]) THEN LStrip(Tail(s)) ELSE s

RECURSIVE RStrip(_)
RStrip(s) ==
    IF Len(s) > 0 /\ IsSpace(s[Len(s)]) THEN RStrip(SubSeq(s, 1, Len(s) - 1)) ELSE s

Strip(s) == RStrip(LStrip(s))

\* re.sub(r"^>\s?", "", line)
DequoteGreedyMutant(line) ==
    IF Len(line) > 0 /\ line[1] = ">" THEN LStrip(Tail(line)) ELSE line

Dequote(line) ==
    IF Len(line) > 0 /\ line[1] = ">"
    THEN IF Len(line) > 1 /\ IsSpace(line[2])
         THEN SubSeq(line, 3, Len(line))
         ELSE Tail(line)
    ELSE line

\* The f-string replace_alert returns.
AlertFragment(alert_type, icon, title, content) ==
    <<"\n", "<div class=\"markdown-alert markdown-alert-", alert_type, "\">", "\n",
      "<p class=\"markdown-alert-title\">", icon, title, "</p>", "\n", "<p>">>
    \o content
    \o <<"</p>", "\n", "</div>", "\n", "\n">>

\* replace_alert(match), for the match m of pattern in t.
replace_alert(t, m) ==
    LET alert_type    == Lower(t[m.kind])
        content_block == SubSeq(t, m.bodyStart, m.end - 1)
        split         == SplitLines(content_block)
        clean_lines   == [n \in 1..Len(split) |-> Dequote(split[n])]
        content       == Strip(JoinLines(clean_lines))
        icon  == IF alert_type \in DOMAIN ALERT_ICONS THEN ALERT_ICONS[alert_type] ELSE ""
        title == IF alert_type \in DOMAIN ALERT_TITLES
                 THEN ALERT_TITLES[alert_type]
                 ELSE Capitalize(alert_type)
    IN  AlertFragment(alert_type, icon, title, content)

\* pattern.sub(replace_alert, t) from index i on: the text left of a match is
\* copied, the match is replaced, and the scan goes on after the match.
RECURSIVE SubFrom(_, _)
SubFrom(t, i) ==
    IF i > Len(t) THEN <<>>
    ELSE LET m == MatchAt(t, i)
         IN  IF m.ok THEN replace_alert(t, m) \o SubFrom(t, m.end)
             ELSE <<t[i]>> \o SubFrom(t, i + 1)

\* The matches pattern.sub hands to replace_alert, left to right.
RECURSIVE MatchesFrom(_, _)
MatchesFrom(t, i) ==
    IF i > Len(t) THEN <<>>
    ELSE LET m == MatchAt(t, i)
         IN  IF m.ok THEN <<m>> \o MatchesFrom(t, m.end)
             ELSE MatchesFrom(t, i + 1)

preprocess_github_alerts(markdown_content) == SubFrom(markdown_content, 1)

(***************************************************************************)
(* ThemeConfig.  A configuration file is [exists, sections]: sections maps *)
(* each section name of the file (DEFAULT among them when the file has it) *)
(* to the function from its keys to their values.                          *)
(***************************************************************************)
ProfileKeys ==
    {"name", "university", "address", "email", "website", "slogan",
     "accent_color", "logo_left", "logo_right"}

ThemeFields == ProfileKeys \cup {"heading_line_color"}

\* The default values ThemeConfig.__init__ sets.
DefaultTheme ==
    [name |-> "Institute of Electricity Economics and Energy Innovation",
     university |-> "Graz University of Technology",
     address |-> "Inffeldgasse 18, 8010 Graz, Austria",
     email |-> "iee@tugraz.at",
     website |-> "www.iee.tugraz.at",
     slogan |-> "SCIENCE PASSION TECHNOLOGY",  \* the separating dots left out
     accent_color |-> "#000000",
     heading_line_color |-> "#d1d9e0",
     logo_left |-> "Logo_IEE.png",
     logo_right |-> "Logo_TuGraz.png"]

\* The keys and values of the DEFAULT section of the parsed file.
ConfigDefaults(cfg) ==
    IF "DEFAULT" \in DOMAIN cfg.sections THEN cfg.sections["DEFAULT"] ELSE <<>>

\* `section in self.config`: ConfigParser holds DEFAULT always.
ConfigContains(cfg, section) ==
    section = "DEFAULT" \/ section \in DOMAIN cfg.sections

\* self.config[section].get(key, fallback): the section's own value, else
\* the DEFAULT section's, else the fallback.
SectionGetNoFallbackMutant(cfg, section, key, fallback) ==
    IF section \in DOMAIN cfg.sections /\ key \in DOMAIN cfg.sections[section]
    THEN cfg.sections[section][key]
    ELSE IF key \in DOMAIN ConfigDefaults(cfg)
    THEN ConfigDefaults(cfg)[key]
    ELSE ""

SectionGet(cfg, section, key, fallback) ==
    IF section \in DOMAIN cfg.sections /\ key \in DOMAIN cfg.sections[section]
    THEN cfg.sections[section][key]
    ELSE IF key \in DOMAIN ConfigDefaults(cfg)
    THEN ConfigDefaults(cfg)[key]
    ELSE fallback

\* ThemeConfig._load_theme
_load_theme(self, cfg, theme_name) ==
    LET loaded ==
            IF ConfigContains(cfg, theme_name)
            THEN [f \in ThemeFields |->
                    IF f \in ProfileKeys
                    THEN SectionGet(cfg, theme_name, f, self[f])
                    ELSE self[f]]
            ELSE self
    IN  IF ConfigContains(cfg, "DEFAULT")
        THEN [loaded EXCEPT !["heading_line_color"] =
                SectionGet(cfg, "DEFAULT", "heading_line_color",
                           loaded["heading_line_color"])]
        ELSE loaded

\* ThemeConfig(theme_name, config_path), cfg the file at config_path.
ThemeConfig(theme_name, cfg) ==
    IF cfg.exists THEN _load_theme(DefaultTheme, cfg, theme_name) ELSE DefaultTheme

(***************************************************************************)
(* The logo files and create_html_document.  A call that can raise or      *)
(* print returns [raised, value, printed]: raised is the exception's name  *)
(* ("" when the call returned), value the Optional result.                 *)
(***************************************************************************)
\* The value a configuration file gives key k in section s.  The logo keys are
\* given paths: an absolute one on the left, a relative one on the right.
CfgValue(s, k) ==
    CASE k = "logo_left" -> "/srv/" \o s \o "/left.svg"
      [] k = "logo_right" -> s \o "/right.jpg"
      [] OTHER -> s \o "." \o k

SectionNames == {"DEFAULT", "Standard"}

\* Path(__file__).parent
ScriptDir == "/app"

\* Path.is_absolute, over the paths of the model.
IsAbsolute(image_path) == image_path \in {CfgValue(s, "logo_left") : s \in SectionNames}

\* path.suffix.lower(), over the paths of the model.
Suffix(path) ==
    IF path \in {CfgValue(s, "logo_left") : s \in SectionNames} THEN ".svg"
    ELSE IF path \in {ScriptDir \o "/" \o CfgValue(s, "logo_right") : s \in SectionNames}
    THEN ".jpg"
    ELSE ".png"

\* mime_types.get(ext, "image/png")
MimeType(ext) ==
    CASE ext = ".png" -> "image/png"
      [] ext \in {".jpg", ".jpeg"} -> "image/jpeg"
      [] ext = ".webp" -> "image/webp"
      [] ext = ".svg" -> "image/svg+xml"
      [] OTHER -> "image/png"

\* The state of the file at path: "readable", "unreadable" (it exists and
\* open() raises PermissionError) or "absent".
FileState(files, path) == IF path \in DOMAIN files THEN files[path] ELSE "absent"

\* load_image_as_base64, lines 116-118: the path the image is read from.
ResolvePath(image_path, script_dir) ==
    IF IsAbsolute(image_path) THEN image_path ELSE script_dir \o "/" \o image_path

\* load_image_as_base64(image_path, script_dir) on the file system files.
load_image_as_base64(image_path, script_dir, files) ==
    LET path == ResolvePath(image_path, script_dir)
    IN  CASE FileState(files, path) = "absent" ->
               [raised |-> "", value |-> <<>>,
                printed |-> <<"Warning: Image not found: " \o path>>]
          [] FileState(files, path) = "unreadable" ->
               [raised |-> "PermissionError", value |-> <<>>, printed |-> <<>>]
          [] OTHER ->
               [raised |-> "", printed |-> <<>>,
                value |-> <<"data:" \o MimeType(Suffix(path)) \o ";base64,b64(" \o path \o ")">>]

\* get_github_css (the stylesheet is abbreviated to its parameter).
get_github_css(heading_line_color) == "github-css(" \o heading_line_color \o ")"

\* get_iee_css
get_iee_css(th) == "iee-css(" \o th.accent_color \o ")"

\* get_iee_header
get_iee_header(th, logo_left_data, logo_right_data) ==
    "<div class=\"iee-header\"><img src=\"" \o logo_left_data \o "\">"
    \o th.name \o "|" \o th.university
    \o "<img src=\"" \o logo_right_data \o "\"></div>"

\* get_iee_footer
get_iee_footer(th) ==
    "<div class=\"iee-footer\">" \o th.university \o "|" \o th.name \o "|"
    \o th.address \o "|" \o th.email \o " | " \o th.website \o "|" \o th.slogan
    \o "</div>"

\* The f-string create_html_document returns: the skeleton, with the
\* stylesheet at 2, the header at 4, the body at 6 and the footer at 8.
HtmlDocument(css, header, body, footer) ==
    <<"<!DOCTYPE html><html lang=\"en\"><head><style>", css,
      "</style></head><body>\n", header, "\n", body, "\n", footer,
      "\n</body></html>">>

\* `if iee_style and theme and script_dir`
BrandingAlwaysMutant(th, iee_style, script_dir) ==
    th # <<>> /\ script_dir # <<>>

BrandingRequested(th, iee_style, script_dir) ==
    iee_style /\ th # <<>> /\ script_dir # <<>>

\* create_html_document(body, theme, iee_style, script_dir) on the file system
\* files; th and script_dir are Optional.
create_html_document(body, th, iee_style, script_dir, files) ==
    LET heading_color == IF th # <<>> THEN th[1].heading_line_color ELSE "#d1d9e0"
        css == get_github_css(heading_color)
    IN  IF BrandingRequested(th, iee_style, script_dir)
        THEN LET logo_left  == load_image_as_base64(th[1].logo_left, script_dir[1], files)
                 logo_right == load_image_as_base64(th[1].logo_right, script_dir[1], files)
             IN  IF logo_left.raised # ""
                 THEN [raised |-> logo_left.raised, value |-> <<>>,
                       printed |-> logo_left.printed]
                 ELSE IF logo_right.raised # ""
                 THEN [raised |-> logo_right.raised, value |-> <<>>,
                       printed |-> logo_left.printed \o logo_right.printed]
                 ELSE [raised |-> "",
                       printed |-> logo_left.printed \o logo_right.printed,
                       value |-> <<HtmlDocument(
                           css \o get_iee_css(th[1]),
                           IF logo_left.value # <<>> /\ logo_right.value # <<>>
                           THEN get_iee_header(th[1], logo_left.value[1], logo_right.value[1])
                           ELSE "",
                           body,
                           IF logo_left.value # <<>> /\ logo_right.value # <<>>
                           THEN get_iee_footer(th[1])
                           ELSE "")>>]
        ELSE [raised |-> "", printed |-> <<>>,
              value |-> <<HtmlDocument(css, "", body, "")>>]

\* convert_markdown_to_html: the Markdown library's conversion, a function of
\* the text that the model leaves uninterpreted.
convert_markdown_to_html(markdown_content) ==
    <<"md.convert(">> \o markdown_content \o <<")">>

(***************************************************************************)
(* main: one run of the program, a statement (or call) at a time.  An      *)
(* exception raised inside the try block makes status "raising" and the    *)
(* run go to the finally clause; one raised outside ends the run.          *)
(***************************************************************************)
\* `if not os.path.exists(input_path)`
InputCheckSkippedMutant(exists) == FALSE

InputMissing(exists) == ~exists

\* The temporary file after `if os.path.exists(temp_html): os.remove(temp_html)`.
FinallyOnlyWrittenMutant(f) == IF f = "written" THEN "absent" ELSE f

AfterFinally(f) == IF f # "absent" THEN "absent" ELSE f

\* An exception leaves the try block: the finally clause runs next.
Raise ==
    /\ status' = "raising"
    /\ pc' = "finally"

\* main, lines 581-583
CheckInput ==
    /\ pc = "check_input"
    /\ IF InputMissing(inputExists)
       THEN /\ stdout' = Append(stdout, "Error: not found")
            /\ status' = "exit1"
            /\ pc' = "done"
       ELSE /\ pc' = "install_dependencies"
            /\ UNCHANGED <<stdout, status>>
    /\ UNCHANGED <<inputExists, iee, themeArg, cfgFile, logoFiles, mdFile, theme,
                   md_content, processed, html_body, html_doc, tempFile, pdfFile,
                   trace, call, ret, runs, cwd>>

\* install_dependencies(): it returns, or subprocess.check_call raises.
InstallDependencies ==
    /\ pc = "install_dependencies"
    /\ stdout' = Append(stdout, "Checking system dependencies...")
    /\ \/ /\ pc' = "resolve_theme"
          /\ trace' = Append(trace, "ensure_dependencies")
          /\ UNCHANGED status
       \/ /\ pc' = "done"
          /\ status' = "raised"
          /\ UNCHANGED trace
    /\ UNCHANGED <<inputExists, iee, themeArg, cfgFile, logoFiles, mdFile, theme,
                   md_content, processed, html_body, html_doc, tempFile, pdfFile,
                   call, ret, runs, cwd>>

\* main, lines 587-588
ResolveTheme ==
    /\ pc = "resolve_theme"
    /\ IF iee
       THEN /\ theme' = <<ThemeConfig(themeArg, cfgFile)>>
            /\ trace' = Append(trace, "resolve_theme")
       ELSE /\ theme' = <<>>
            /\ UNCHANGED trace
    /\ pc' = "read_markdown"
    /\ UNCHANGED <<status, inputExists, iee, themeArg, cfgFile, logoFiles, mdFile,
                   md_content, processed, html_body, html_doc, tempFile, pdfFile,
                   stdout, call, ret, runs, cwd>>

\* convert_and_style, lines 504-508: the file is read, or reading raises.
ReadMarkdown ==
    /\ pc = "read_markdown"
    /\ stdout' = Append(stdout, "Converting to HTML...")
    /\ \/ /\ md_content' = mdFile
          /\ trace' = Append(trace, "read_markdown")
          /\ pc' = "preprocess"
          /\ UNCHANGED status
       \/ /\ Raise
          /\ UNCHANGED <<md_content, trace>>
    /\ UNCHANGED <<inputExists, iee, themeArg, cfgFile, logoFiles, mdFile, theme,
                   processed, html_body, html_doc, tempFile, pdfFile, call, ret, runs, cwd>>

\* convert_and_style, line 510
PreprocessSkippedMutant ==
    /\ pc = "preprocess"
    /\ processed' = md_content
    /\ pc' = "convert"
    /\ UNCHANGED <<status, inputExists, iee, themeArg, cfgFile, logoFiles, mdFile,
                   theme, md_content, html_body, html_doc, tempFile, pdfFile,
                   stdout, trace, call, ret, runs, cwd>>

Preprocess ==
    /\ pc = "preprocess"
    /\ processed' = preprocess_github_alerts(md_content)
    /\ trace' = Append(trace, "preprocess_alerts")
    /\ pc' = "convert"
    /\ UNCHANGED <<status, inputExists, iee, themeArg, cfgFile, logoFiles, mdFile,
                   theme, md_content, html_body, html_doc, tempFile, pdfFile,
                   stdout, call, ret, runs, cwd>>

\* convert_and_style, line 511: the Markdown library converts, or raises.
ConvertMarkdown ==
    /\ pc = "convert"
    /\ \/ /\ html_body' = convert_markdown_to_html(processed)
          /\ trace' = Append(trace, "convert_markdown")
          /\ pc' = "assemble"
          /\ UNCHANGED status
       \/ /\ Raise
          /\ UNCHANGED <<html_body, trace>>
    /\ UNCHANGED <<inputExists, iee, themeArg, cfgFile, logoFiles, mdFile, theme,
                   md_content, processed, html_doc, tempFile, pdfFile, stdout,
                   call, ret, runs, cwd>>

\* convert_and_style, line 512
AssembleDocument ==
    /\ pc = "assemble"
    /\ LET r == create_html_document(html_body, theme, iee, <<ScriptDir>>, logoFiles)
       IN  /\ stdout' = stdout \o r.printed
           /\ IF r.raised = ""
              THEN /\ html_doc' = r.value[1]
                   /\ trace' = Append(trace, "assemble_document")
                   /\ pc' = "open_temp"
                   /\ UNCHANGED status
              ELSE /\ Raise
                   /\ UNCHANGED <<html_doc, trace>>
    /\ UNCHANGED <<inputExists, iee, themeArg, cfgFile, logoFiles, mdFile, theme,
                   md_content, processed, html_body, tempFile, pdfFile, call, ret, runs, cwd>>

\* convert_and_style, line 514: open(temp_html, "w") creates the file empty,
\* or raises and creates nothing.
OpenTemp ==
    /\ pc = "open_temp"
    /\ \/ /\ tempFile' = "empty"
          /\ pc' = "write_temp"
          /\ UNCHANGED status
       \/ /\ Raise
          /\ UNCHANGED tempFile
    /\ UNCHANGED <<inputExists, iee, themeArg, cfgFile, logoFiles, mdFile, theme,
                   md_content, processed, html_body, html_doc, pdfFile, stdout,
                   trace, call, ret, runs, cwd>>

\* convert_and_style, line 515: f.write(html_doc) writes the document, or
\* raises with the file already there.
WriteTemp ==
    /\ pc = "write_temp"
    /\ \/ /\ tempFile' = "written"
          /\ trace' = Append(trace, "write_temp_html")
          /\ pc' = "render_load"
          /\ UNCHANGED status
       \/ /\ Raise
          /\ UNCHANGED <<tempFile, trace>>
    /\ UNCHANGED <<inputExists, iee, themeArg, cfgFile, logoFiles, mdFile, theme,
                   md_content, processed, html_body, html_doc, pdfFile, stdout,
                   call, ret, runs, cwd>>

\* print_to_pdf, lines 526-544: the browser starts and loads the temporary
\* file, or Playwright raises.
RenderLoad ==
    /\ pc = "render_load"
    /\ stdout' = Append(stdout, "Printing to PDF...")
    /\ \/ /\ trace' = Append(trace, "render_pdf")
          /\ pc' = "render_pdf"
          /\ UNCHANGED status
       \/ /\ Raise
          /\ UNCHANGED trace
    /\ UNCHANGED <<inputExists, iee, themeArg, cfgFile, logoFiles, mdFile, theme,
                   md_content, processed, html_body, html_doc, tempFile, pdfFile,
                   call, ret, runs, cwd>>

\* print_to_pdf, lines 546-558: page.pdf writes the output file, or raises.
RenderPdf ==
    /\ pc = "render_pdf"
    /\ \/ /\ pdfFile' = TRUE
          /\ trace' = Append(trace, "write_pdf")
          /\ pc' = "print_success"
          /\ UNCHANGED status
       \/ /\ Raise
          /\ UNCHANGED <<pdfFile, trace>>
    /\ UNCHANGED <<inputExists, iee, themeArg, cfgFile, logoFiles, mdFile, theme,
                   md_content, processed, html_body, html_doc, tempFile, stdout,
                   call, ret, runs, cwd>>

\* main, lines 593-595
PrintSuccess ==
    /\ pc = "print_success"
    /\ stdout' = stdout \o <<"PDF created">>
                        \o (IF iee THEN <<"(with IEE styling)">> ELSE <<>>)
    /\ pc' = "finally"
    /\ UNCHANGED <<status, inputExists, iee, themeArg, cfgFile, logoFiles, mdFile,
                   theme, md_content, processed, html_body, html_doc, tempFile,
                   pdfFile, trace, call, ret, runs, cwd>>

\* main, lines 596-598, and the end of the run: the exception that was
\* propagating leaves main, or main returns.
Finally ==
    /\ pc = "finally"
    /\ tempFile' = AfterFinally(tempFile)
    /\ trace' = IF tempFile # "absent" THEN Append(trace, "delete_temp_html") ELSE trace
    /\ status' = IF status = "raising" THEN "raised" ELSE "exit0"
    /\ pc' = "done"
    /\ UNCHANGED <<inputExists, iee, themeArg, cfgFile, logoFiles, mdFile, theme,
                   md_content, processed, html_body, html_doc, pdfFile, stdout,
                   call, ret, runs, cwd>>

(***************************************************************************)
(* The inputs of the model.                                                *)
(***************************************************************************)
\* The lines a Markdown text is made of: marker lines (upper and lower case,
\* with and without whitespace), a marker of an unknown kind, a marker with no
\* closing bracket, quoted lines, a bare quote, a blank line, plain text and a
\* marker that is not quoted.
LineForms ==
    << <<">", " ", "[", "!", "NOTE", "]">>,
       <<">", "[", "!", "tip", "]", " ">>,
       <<">", " ", "[", "!", "FOO", "]">>,
       <<">", " ", "[", "!", "NOTE">>,
       <<">", " ", "Hello">>,
       <<">", " ", "line1">>,
       <<">", " ", "line2">>,
       <<">", " ", " ", "line2">>,
       <<">">>,
       <<>>,
       <<"text">>,
       <<"[", "!", "NOTE", "]">> >>

\* The text of the lines numbered ls, each ended by a line break, the last
\* one only when final_newline.
RECURSIVE TextOf(_, _)
TextOf(ls, final_newline) ==
    IF Len(ls) = 0 THEN <<>>
    ELSE IF Len(ls) = 1
    THEN LineForms[ls[1]] \o (IF final_newline THEN <<"\n">> ELSE <<>>)
    ELSE LineForms[ls[1]] \o <<"\n">> \o TextOf(Tail(ls), final_newline)

MarkdownTexts ==
    {TextOf(ls, nl) :
        ls \in UNION {[1..n -> 1..Len(LineForms)] : n \in 1..MaxLines},
        nl \in BOOLEAN}

\* The Markdown files of the runs of main: a heading and a WARNING alert,
\* plain text, and an alert with a blank line after its marker.
MainTexts ==
    { <<"#", " ", "Title", "\n", "\n",
        ">", " ", "[", "!", "WARNING", "]", "\n", ">", " ", "Careful", "\n">>,
      <<"Hello", "\n">>,
      <<">", " ", "[", "!", "NOTE", "]", "\n", "\n", ">", " ", "Hello", "\n">> }

ConfigKeys == ThemeFields \cup {"foo"}

Section(s, keys) == [k \in keys |-> CfgValue(s, k)]

\* The configuration file with the DEFAULT section and the Standard section
\* holding the given keys; dk and sk are Optional sets of keys.
ConfigFile(dk, sk) ==
    [exists |-> TRUE,
     sections |->
        [s \in (IF dk # <<>> THEN {"DEFAULT"} ELSE {})
               \cup (IF sk # <<>> THEN {"Standard"} ELSE {}) |->
            Section(s, IF s = "DEFAULT" THEN dk[1] ELSE sk[1])]]

NoConfigFile == [exists |-> FALSE, sections |-> <<>>]

KeySets == {K \in SUBSET ConfigKeys : Cardinality(K) <= MaxKeys}

OptionalKeySets == {<<>>} \cup {<<K>> : K \in KeySets}

ConfigFiles ==
    {NoConfigFile} \cup {ConfigFile(dk, sk) : dk \in OptionalKeySets, sk \in OptionalKeySets}

ThemeNames == {"Standard", "Custom", "DEFAULT"}

\* The configuration files of the runs of main.
MainConfigs ==
    { NoConfigFile,
      ConfigFile(<<{"heading_line_color"}>>, <<{"name", "logo_left"}>>),
      ConfigFile(<<>>, <<{"slogan"}>>) }

LogoPaths ==
    { ScriptDir \o "/" \o DefaultTheme.logo_left,
      ScriptDir \o "/" \o DefaultTheme.logo_right,
      CfgValue("Standard", "logo_left"),
      ScriptDir \o "/" \o CfgValue("Standard", "logo_right") }

FileStates == {"readable", "absent", "unreadable"}

\* The themes create_html_document is called with: none, the defaults, and
\* one whose logos a configuration file names.
DocThemes ==
    { <<>>,
      <<DefaultTheme>>,
      <<ThemeConfig("Standard",
                    ConfigFile(<<>>, <<{"logo_left", "logo_right", "name"}>>))>> }

DocBodies == { <<"<p>", "Hello", "</p>">>, <<>> }

(***************************************************************************)
(* The specifications.                                                     *)
(***************************************************************************)
NoCall == [fn |-> "none"]

\* One invocation, or one direct call: no invocations run side by side.
NoRuns == runs = <<>> /\ cwd = <<>>

\* The run of main has not started: the state in which a function is called
\* directly.
MainIdle ==
    /\ pc = "idle"
    /\ status = "idle"
    /\ inputExists = FALSE
    /\ iee = FALSE
    /\ themeArg = "Standard"
    /\ cfgFile = NoConfigFile
    /\ logoFiles = <<>>
    /\ mdFile = <<>>
    /\ theme = <<>>
    /\ md_content = <<>>
    /\ processed = <<>>
    /\ html_body = <<>>
    /\ html_doc = <<>>
    /\ tempFile = "absent"
    /\ pdfFile = FALSE
    /\ stdout = <<>>
    /\ trace = <<>>

\* main starts: the arguments are parsed, nothing has been done.  The
\* working directory holds no temporary file and no output file of an earlier
\* run, and the configuration file, when there is one, is one configparser
\* reads.
Init ==
    /\ pc = "check_input"
    /\ status = "running"
    /\ inputExists \in BOOLEAN
    /\ iee \in BOOLEAN
    /\ themeArg \in {"Standard", "Custom"}
    /\ cfgFile \in MainConfigs
    /\ logoFiles \in [LogoPaths -> FileStates]
    /\ logoFiles[CfgValue("Standard", "logo_left")] = "readable"
    /\ logoFiles[ScriptDir \o "/" \o CfgValue("Standard", "logo_right")] = "readable"
    /\ mdFile \in MainTexts
    /\ theme = <<>>
    /\ md_content = <<>>
    /\ processed = <<>>
    /\ html_body = <<>>
    /\ html_doc = <<>>
    /\ tempFile = "absent"
    /\ pdfFile = FALSE
    /\ stdout = <<>>
    /\ trace = <<>>
    /\ call = NoCall
    /\ ret = <<>>
    /\ NoRuns

Next ==
    \/ CheckInput
    \/ InstallDependencies
    \/ ResolveTheme
    \/ ReadMarkdown
    \/ Preprocess
    \/ ConvertMarkdown
    \/ AssembleDocument
    \/ OpenTemp
    \/ WriteTemp
    \/ RenderLoad
    \/ RenderPdf
    \/ PrintSuccess
    \/ Finally

Spec == Init /\ [][Next]_vars

\* preprocess_github_alerts called on a text.
InitAlerts ==
    /\ MainIdle
    /\ call \in {[fn |-> "preprocess_github_alerts", markdown_content |-> t] :
                    t \in MarkdownTexts}
    /\ ret = <<>>
    /\ NoRuns

CallPreprocess ==
    /\ call.fn = "preprocess_github_alerts"
    /\ ret = <<>>
    /\ ret' = <<[out |-> preprocess_github_alerts(call.markdown_content),
                 matches |-> MatchesFrom(call.markdown_content, 1)]>>
    /\ UNCHANGED <<call, mainVars, runs, cwd>>

SpecAlerts == InitAlerts /\ [][CallPreprocess]_vars

\* ThemeConfig called with a profile name and a configuration file.
InitTheme ==
    /\ MainIdle
    /\ call \in {[fn |-> "ThemeConfig", theme_name |-> n, config |-> c] :
                    n \in ThemeNames, c \in ConfigFiles}
    /\ ret = <<>>
    /\ NoRuns

CallThemeConfig ==
    /\ call.fn = "ThemeConfig"
    /\ ret = <<>>
    /\ ret' = <<ThemeConfig(call.theme_name, call.config)>>
    /\ UNCHANGED <<call, mainVars, runs, cwd>>

SpecTheme == InitTheme /\ [][CallThemeConfig]_vars

\* create_html_document called with a body, a theme, the branding flag and a
\* base directory, on a file system.
InitDoc ==
    /\ MainIdle
    /\ call \in {[fn |-> "create_html_document", body |-> b, theme |-> th,
                  iee_style |-> i, script_dir |-> d, files |-> f] :
                    b \in DocBodies, th \in DocThemes, i \in BOOLEAN,
                    d \in {<<>>, <<ScriptDir>>}, f \in [LogoPaths -> FileStates]}
    /\ ret = <<>>
    /\ NoRuns

CallCreateHtmlDocument ==
    /\ call.fn = "create_html_document"
    /\ ret = <<>>
    /\ ret' = <<create_html_document(call.body, call.theme, call.iee_style,
                                     call.script_dir, call.files)>>
    /\ UNCHANGED <<call, mainVars, runs, cwd>>

SpecDoc == InitDoc /\ [][CallCreateHtmlDocument]_vars

(***************************************************************************)
(* Invocations of main running at the same time in one working directory.  *)
(* Each is past the input check, the dependency check and the theme        *)
(* resolution, which touch nothing the invocations share.  A temporary     *)
(* file of the directory is an Optional content, and a content is the      *)
(* sequence of the invocations whose documents were written into the file  *)
(* since it was last created or truncated: <<>> is no file, << <<>> >> an  *)
(* empty file, << <<1>> >> the document of invocation 1.                   *)
(***************************************************************************)
\* The number of invocations running at the same time.
NumRuns == 2

\* The input paths of the invocations, as sequences of path components: two
\* files of the same base name in different directories, and a third file.
InputPaths == { <<"a", "x.md">>, <<"b", "x.md">>, <<"y.md">> }

\* os.path.basename
Basename(path) == path[Len(path)]

\* main, line 588: f"temp_{os.path.basename(input_path)}.html"
TempHtml(input_path) == "temp_" \o Basename(input_path) \o ".html"

TempNames == {TempHtml(path) : path \in InputPaths}

\* Invocation r goes on to statement p.
RunGoto(r, p) == runs' = [runs EXCEPT ![r].pc = p]

\* An exception leaves the try block of invocation r.
RunRaise(r) == runs' = [runs EXCEPT ![r].pc = "finally", ![r].status = "raising"]

\* Invocation r ends: the exception that was propagating leaves main, or main
\* returns.
RunEnd(rec) ==
    [rec EXCEPT !.pc = "done",
                !.status = IF rec.status = "raising" THEN "raised" ELSE "exit0"]

\* main, lines 577-588: the names are computed.
RunStart(r) ==
    /\ runs[r].pc = "start"
    /\ runs' = [runs EXCEPT ![r].pc = "convert",
                            ![r].temp_html = TempHtml(runs[r].input_path)]
    /\ UNCHANGED <<cwd, call, ret, mainVars>>

\* convert_and_style, lines 504-512: the document is assembled, or a step of
\* the conversion raises.
RunConvert(r) ==
    /\ runs[r].pc = "convert"
    /\ \/ RunGoto(r, "open_temp")
       \/ RunRaise(r)
    /\ UNCHANGED <<cwd, call, ret, mainVars>>

\* convert_and_style, line 514: open(temp_html, "w") creates the file, or
\* truncates the file that is there.
RunOpenTemp(r) ==
    /\ runs[r].pc = "open_temp"
    /\ cwd' = [cwd EXCEPT ![runs[r].temp_html] = << <<>> >>]
    /\ runs' = [runs EXCEPT ![r].pc = "write_temp", ![r].f = "linked"]
    /\ UNCHANGED <<call, ret, mainVars>>

\* convert_and_style, line 515 and the end of the with block: the document
\* is written through f and f is closed.  A file removed since it was opened
\* takes the document with it: the name stays as the removal left it.
RunWriteTemp(r) ==
    /\ runs[r].pc = "write_temp"
    /\ cwd' = IF runs[r].f = "linked"
              THEN [cwd EXCEPT ![runs[r].temp_html] = <<Append(@[1], r)>>]
              ELSE cwd
    /\ runs' = [runs EXCEPT ![r].pc = "render_load", ![r].f = "none"]
    /\ UNCHANGED <<call, ret, mainVars>>

\* print_to_pdf, lines 526-544: page.goto loads what the name holds, and
\* raises when the name holds no file.
RunLoad(r) ==
    /\ runs[r].pc = "render_load"
    /\ IF cwd[runs[r].temp_html] = <<>>
       THEN RunRaise(r)
       ELSE runs' = [runs EXCEPT ![r].pc = "render_pdf",
                                 ![r].loaded = cwd[runs[r].temp_html]]
    /\ UNCHANGED <<cwd, call, ret, mainVars>>

\* print_to_pdf, lines 546-558, and main, lines 593-595: page.pdf prints the
\* page that was loaded, or raises.
RunPdf(r) ==
    /\ runs[r].pc = "render_pdf"
    /\ \/ runs' = [runs EXCEPT ![r].pc = "finally", ![r].pdf = runs[r].loaded]
       \/ RunRaise(r)
    /\ UNCHANGED <<cwd, call, ret, mainVars>>

\* main, line 597: `if os.path.exists(temp_html)`
RunFinallyExists(r) ==
    /\ runs[r].pc = "finally"
    /\ runs' = IF cwd[runs[r].temp_html] # <<>>
               THEN [runs EXCEPT ![r].pc = "remove"]
               ELSE [runs EXCEPT ![r] = RunEnd(runs[r])]
    /\ UNCHANGED <<cwd, call, ret, mainVars>>

\* main, line 598: os.remove(temp_html) removes the file the name holds,
\* whoever has it open, or raises FileNotFoundError when the name holds none.
RunRemove(r) ==
    /\ runs[r].pc = "remove"
    /\ IF cwd[runs[r].temp_html] # <<>>
       THEN /\ cwd' = [cwd EXCEPT ![runs[r].temp_html] = <<>>]
            /\ runs' = [q \in DOMAIN runs |->
                          IF q = r THEN RunEnd(runs[r])
                          ELSE IF /\ runs[q].f = "linked"
                                  /\ runs[q].temp_html = runs[r].temp_html
                          THEN [runs[q] EXCEPT !.f = "unlinked"]
                          ELSE runs[q]]
       ELSE /\ runs' = [runs EXCEPT ![r].pc = "done", ![r].status = "raised"]
            /\ UNCHANGED cwd
    /\ UNCHANGED <<call, ret, mainVars>>

\* The invocations start, each on one of the input paths, in a directory
\* that holds no temporary file.
InitConcurrent ==
    /\ MainIdle
    /\ call = NoCall
    /\ ret = <<>>
    /\ runs \in [1..NumRuns ->
                    {[pc |-> "start", status |-> "running", input_path |-> path,
                      temp_html |-> "", f |-> "none", loaded |-> <<>>,
                      pdf |-> <<>>] : path \in InputPaths}]
    /\ cwd = [n \in TempNames |-> <<>>]

NextConcurrent ==
    \/ \E r \in DOMAIN runs : RunStart(r)
    \/ \E r \in DOMAIN runs : RunConvert(r)
    \/ \E r \in DOMAIN runs : RunOpenTemp(r)
    \/ \E r \in DOMAIN runs : RunWriteTemp(r)
    \/ \E r \in DOMAIN runs : RunLoad(r)
    \/ \E r \in DOMAIN runs : RunPdf(r)
    \/ \E r \in DOMAIN runs : RunFinallyExists(r)
    \/ \E r \in DOMAIN runs : RunRemove(r)

SpecConcurrent == InitConcurrent /\ [][NextConcurrent]_vars

(***************************************************************************)
(* Properties of main, checked under Spec.                                 *)
(***************************************************************************)
\* C1: once main has passed the input-exists check, the temporary HTML file
\* does not exist when the run ends, whichever way the run ends: conversion
\* and rendering succeeded, conversion raised (before or after the file was
\* created) or rendering raised.
C1_TempFileRemoved ==
    (pc = "done" /\ inputExists) => tempFile = "absent"

\* A run in which the temporary file was written, rendering raised and the
\* finally clause deleted the file.
C1_Witness ==
    /\ pc = "done"
    /\ status = "raised"
    /\ Len(trace) >= 2
    /\ trace[Len(trace) - 1] = "write_temp_html"
    /\ trace[Len(trace)] = "delete_temp_html"
    /\ tempFile = "absent"

\* C2: when the input file does not exist, main prints the error message and
\* exits with status 1 having done nothing else: no dependency check, no theme,
\* no read of the Markdown file, no temporary file, no renderer call, no PDF.
C2_MissingInputExitsFirst ==
    ~inputExists =>
        /\ pc \in {"check_input", "done"}
        /\ trace = <<>>
        /\ theme = <<>>
        /\ md_content = <<>>
        /\ tempFile = "absent"
        /\ ~pdfFile
        /\ pc = "done" => (status = "exit1" /\ stdout = <<"Error: not found">>)

\* A run on a missing input file that has ended.
C2_Witness ==
    /\ ~inputExists
    /\ pc = "done"
    /\ status = "exit1"

\* The stages of a run in the order the control flow is described in: the
\* theme is resolved between the Markdown conversion and the assembly.
StatedOrder(branding) ==
    <<"ensure_dependencies", "read_markdown", "preprocess_alerts", "convert_markdown">>
    \o (IF branding THEN <<"resolve_theme">> ELSE <<>>)
    \o <<"assemble_document", "write_temp_html", "render_pdf", "write_pdf",
         "delete_temp_html">>

\* The stages of a run with the theme resolved right after the dependency
\* check, before the Markdown file is read.
ThemeFirstOrder(branding) ==
    <<"ensure_dependencies">>
    \o (IF branding THEN <<"resolve_theme">> ELSE <<>>)
    \o <<"read_markdown", "preprocess_alerts", "convert_markdown",
         "assemble_document", "write_temp_html", "render_pdf", "write_pdf",
         "delete_temp_html">>

IsPrefix(s, t) == Len(s) <= Len(t) /\ SubSeq(t, 1, Len(s)) = s

\* The stages the run completed before it deleted the temporary file.
CompletedBeforeDelete ==
    IF trace # <<>> /\ trace[Len(trace)] = "delete_temp_html"
    THEN SubSeq(trace, 1, Len(trace) - 1)
    ELSE trace

\* Optional: the stage the statement the run is at belongs to.
StageAt(p) ==
    CASE p = "install_dependencies" -> <<"ensure_dependencies">>
      [] p = "resolve_theme" -> IF iee THEN <<"resolve_theme">> ELSE <<>>
      [] p = "read_markdown" -> <<"read_markdown">>
      [] p = "preprocess" -> <<"preprocess_alerts">>
      [] p = "convert" -> <<"convert_markdown">>
      [] p = "assemble" -> <<"assemble_document">>
      [] p \in {"open_temp", "write_temp"} -> <<"write_temp_html">>
      [] p = "render_load" -> <<"render_pdf">>
      [] p = "render_pdf" -> <<"write_pdf">>
      [] p \in {"print_success", "finally"} -> <<"delete_temp_html">>
      [] OTHER -> <<>>

\* The stages of order that come before stage.
RECURSIVE StagesBefore(_, _)
StagesBefore(order, stage) ==
    IF order = <<>> \/ order[1] = stage THEN <<>>
    ELSE <<order[1]>> \o StagesBefore(Tail(order), stage)

\* The run executes its stages in the given order: the completed stages are
\* the first stages of the order (an exception ends them early, and then only
\* the deletion follows); while no exception is propagating, the stage the run
\* is at starts with exactly the stages before it completed; and a run that
\* ends normally has completed every stage.
RunsInOrder(order) ==
    /\ IsPrefix(CompletedBeforeDelete, StagesBefore(order, "delete_temp_html"))
    /\ (status = "running" /\ StageAt(pc) # <<>>) =>
            trace = StagesBefore(order, StageAt(pc)[1])
    /\ status = "exit0" => trace = order

\* C11: one run of main executes the stages strictly in the stated order,
\* each starting only after the previous one completed: ensure dependencies,
\* read the Markdown file, alert preprocessing, Markdown conversion, (if
\* branding is enabled) theme resolution, document assembly, write temporary
\* HTML, PDF rendering, write output PDF, delete temporary HTML.
C11_StagesInStatedOrder == RunsInOrder(StatedOrder(iee))

\* C11, as the program runs: the same stages, strictly in order, each starting
\* only after the previous one completed, with the theme resolution (if
\* branding is enabled) right after the dependency check and before the
\* Markdown file is read.
C11_StagesThemeFirst == RunsInOrder(ThemeFirstOrder(iee))

\* A run with branding that ended normally, having resolved the theme and
\* then read, preprocessed, converted, assembled, written, rendered and
\* deleted.
C11_Witness ==
    /\ iee
    /\ pc = "done"
    /\ status = "exit0"
    /\ pdfFile
    /\ Len(trace) = 10
    /\ trace[2] = "resolve_theme"
    /\ trace[3] = "read_markdown"
    /\ trace[10] = "delete_temp_html"

(***************************************************************************)
(* Properties of invocations running at the same time, checked under       *)
(* SpecConcurrent.                                                         *)
(***************************************************************************)
\* The name temp_html of invocation r holds a file whose last write is the
\* document of r: nobody truncated, overwrote or removed it since.
HoldsOwnDocument(r) ==
    LET c == cwd[runs[r].temp_html]
    IN  /\ c # <<>>
        /\ c[1] # <<>>
        /\ c[1][Len(c[1])] = r

\* C12: the temporary HTML file is exclusively owned by the run that wrote
\* it: when invocations of main run at the same time in the same working
\* directory, including on inputs with the same base name, no step taken
\* between a run writing its temporary file and that run's renderer loading it
\* overwrites or deletes the file.
C12_TempFileExclusivelyOwned ==
    [][\A r \in DOMAIN runs :
          (/\ runs[r].pc = "render_load"
           /\ HoldsOwnDocument(r)
           /\ runs'[r].pc = "render_load") => HoldsOwnDocument(r)']_vars

(***************************************************************************)
(* Properties of preprocess_github_alerts, checked under SpecAlerts.       *)
(***************************************************************************)
AlertKinds == {"note", "tip", "important", "warning", "caution"}

\* The text has an alert marker: at the start of a line a quote character,
\* optional whitespace, [!KIND] with KIND one of the five kinds in any letter
\* case, optional whitespace, and a line break.
HasAlertMarker(t) ==
    \E i \in 1..Len(t) :
        /\ i = 1 \/ t[i - 1] = "\n"
        /\ t[i] = ">"
        /\ \E j \in (i + 1)..(Len(t) - 3) :
            /\ \A x \in (i + 1)..(j - 1) : IsSpace(t[x])
            /\ t[j] = "[" /\ t[j + 1] = "!" /\ t[j + 3] = "]"
            /\ Lower(t[j + 2]) \in AlertKinds
            /\ \E k \in (j + 4)..Len(t) :
                /\ \A x \in (j + 4)..(k - 1) : IsSpace(t[x])
                /\ t[k] = "\n"

NextLine(t, i) == LineEnd(t, i) + 1

\* C4: the body of a recognized alert block is the contiguous run of lines
\* that start with ">" immediately after the marker line; it stops at the
\* first line that does not start with ">", a blank line included.
C4_BodyIsContiguousRun ==
    ret # <<>> =>
        \A n \in 1..Len(ret[1].matches) :
            LET t == call.markdown_content
                m == ret[1].matches[n]
                first == NextLine(t, m.kind)
            IN  SubSeq(t, m.bodyStart, m.end - 1)
                    = SubSeq(t, first, BodyEnd(t, first) - 1)

\* The lines of a block body: the text between its line breaks.
RECURSIVE BodyLines(_)
BodyLines(block) ==
    IF block = <<>> THEN <<>>
    ELSE LET q == LineEnd(block, 1)
         IN  <<SubSeq(block, 1, q - 1)>> \o BodyLines(SubSeq(block, q + 1, Len(block)))

\* One leading ">" and at most one whitespace character after it removed.
StripQuote(line) ==
    LET rest == Tail(line)
    IN  IF rest # <<>> /\ IsSpace(Head(rest)) THEN Tail(rest) ELSE rest

\* The body text of a block: its lines, each with its quote removed, joined
\* by line breaks and trimmed.
RECURSIVE JoinStripped(_)
JoinStripped(ls) ==
    IF ls = <<>> THEN <<>>
    ELSE IF Len(ls) = 1 THEN StripQuote(ls[1])
    ELSE StripQuote(ls[1]) \o <<"\n">> \o JoinStripped(Tail(ls))

ExpectedTitle == [note |-> "Note", tip |-> "Tip", important |-> "Important",
                  warning |-> "Warning", caution |-> "Caution"]

\* The fragment of the block matched by m in t.
ExpectedFragment(t, m) ==
    LET kind == Lower(t[m.kind])
        body == Strip(JoinStripped(BodyLines(SubSeq(t, m.bodyStart, m.end - 1))))
    IN  <<"\n", "<div class=\"markdown-alert markdown-alert-", kind, "\">", "\n",
          "<p class=\"markdown-alert-title\">", ALERT_ICONS[kind], ExpectedTitle[kind],
          "</p>", "\n", "<p>">> \o body \o <<"</p>", "\n", "</div>", "\n", "\n">>

\* The text t from index i on with each block of ms replaced by its fragment.
RECURSIVE ExpectedFrom(_, _, _)
ExpectedFrom(t, ms, i) ==
    IF ms = <<>> THEN SubSeq(t, i, Len(t))
    ELSE SubSeq(t, i, ms[1].start - 1)
             \o ExpectedFragment(t, ms[1])
             \o ExpectedFrom(t, Tail(ms), ms[1].end)

NoteMarker == <<">", " ", "[", "!", "NOTE", "]", "\n">>

FragmentHead(kind, title) ==
    <<"\n", "<div class=\"markdown-alert markdown-alert-", kind, "\">", "\n",
      "<p class=\"markdown-alert-title\">", ALERT_ICONS[kind], title, "</p>", "\n", "<p>">>

FragmentTail == <<"</p>", "\n", "</div>", "\n", "\n">>

\* C5: each recognized block, its kind in any letter case, is replaced by one
\* fragment tagged with the lower-cased kind, titled with the capitalized kind
\* and holding in one paragraph the body: each body line without one leading
\* ">" and at most one whitespace character after it, the lines joined by line
\* breaks, the result trimmed.  "> [!NOTE]\n> Hello\n" gives note, "Note" and
\* "Hello"; body lines "> line1\n> line2\n" give "line1\nline2"; an empty
\* body gives an empty paragraph.
C5_FragmentOfBlock ==
    ret # <<>> =>
        LET t == call.markdown_content
        IN  /\ ret[1].out = ExpectedFrom(t, ret[1].matches, 1)
            /\ t = NoteMarker \o <<">", " ", "Hello", "\n">> =>
                  ret[1].out = FragmentHead("note", "Note") \o <<"Hello">> \o FragmentTail
            /\ t = NoteMarker \o <<">", " ", "line1", "\n", ">", " ", "line2", "\n">> =>
                  ret[1].out = FragmentHead("note", "Note")
                                  \o <<"line1", "\n", "line2">> \o FragmentTail
            /\ t = NoteMarker =>
                  ret[1].out = FragmentHead("note", "Note") \o FragmentTail
            /\ t = <<">", "[", "!", "tip", "]", " ", "\n", ">", " ", " ", "line2", "\n">> =>
                  ret[1].out = FragmentHead("tip", "Tip") \o <<"line2">> \o FragmentTail

\* A lower-case marker followed by two body lines, the second with two
\* spaces after its quote: one of them stays in the body.
C5_Witness ==
    /\ ret # <<>>
    /\ call.markdown_content =
         <<">", "[", "!", "tip", "]", " ", "\n",
           ">", " ", "line1", "\n", ">", " ", " ", "line2", "\n">>
    /\ ret[1].out = FragmentHead("tip", "Tip")
                       \o <<"line1", "\n", " ", "line2">> \o FragmentTail

(***************************************************************************)
(* Properties of ThemeConfig, checked under SpecTheme.                     *)
(***************************************************************************)
\* The values the file gives key f, in any of its sections.
Overrides(cfg, f) ==
    {cfg.sections[s][f] : s \in {x \in DOMAIN cfg.sections : f \in DOMAIN cfg.sections[x]}}

\* Every field of the resolved theme holds an override or its default.
NoMissingField(tc, cfg) ==
    /\ DOMAIN tc = ThemeFields
    /\ \A f \in ThemeFields : tc[f] \in {DefaultTheme[f]} \cup Overrides(cfg, f)

\* The file has the section the profile name names.
HasNamedSection(cfg, theme_name) == cfg.exists /\ theme_name \in DOMAIN cfg.sections

\* The heading-rule color the global section of the file sets, else the default.
GlobalHeadingColor(cfg) ==
    IF "DEFAULT" \in DOMAIN cfg.sections
       /\ "heading_line_color" \in DOMAIN cfg.sections["DEFAULT"]
    THEN cfg.sections["DEFAULT"]["heading_line_color"]
    ELSE DefaultTheme["heading_line_color"]

C7_ExactlyTheSectionKeys ==
    (ret # <<>> /\ HasNamedSection(call.config, call.theme_name)) =>
        LET section == call.config.sections[call.theme_name]
        IN  /\ \A f \in ProfileKeys :
                 ret[1][f] = IF f \in DOMAIN section THEN section[f] ELSE DefaultTheme[f]
            /\ ret[1]["heading_line_color"] = GlobalHeadingColor(call.config)

(***************************************************************************)
(* Properties of create_html_document, checked under SpecDoc.              *)
(***************************************************************************)
\* The header and the footer of a document.
DocHeader(doc) == doc[4]

DocBody(doc) == doc[6]

DocFooter(doc) == doc[8]

\* The state of the left and of the right logo file of a call with a theme
\* and a base directory.
LeftLogo(c) ==
    FileState(c.files, ResolvePath(c.theme[1].logo_left, c.script_dir[1]))

RightLogo(c) ==
    FileState(c.files, ResolvePath(c.theme[1].logo_right, c.script_dir[1]))

\* The call asks for branding and supplies a theme and a base directory.
Branded(c) == c.iee_style /\ c.theme # <<>> /\ c.script_dir # <<>>

\* The call returned a document with the body and neither header nor footer.
PlainDocument(c, r) ==
    /\ r.raised = ""
    /\ r.value # <<>>
    /\ DocHeader(r.value[1]) = ""
    /\ DocFooter(r.value[1]) = ""
    /\ DocBody(r.value[1]) = c.body

\* C8: with the branding flag false the document has neither header nor
\* footer, whatever the body, the theme, the base directory and the logo files.
C8_NoBrandingNoHeaderFooter ==
    (ret # <<>> /\ ~call.iee_style) => PlainDocument(call, ret[1])

\* A call with the flag false, a theme, a base directory and both logo files
\* readable.
C8_Witness ==
    /\ ret # <<>>
    /\ ~call.iee_style
    /\ call.theme # <<>>
    /\ call.script_dir # <<>>
    /\ LeftLogo(call) = "readable"
    /\ RightLogo(call) = "readable"
    /\ PlainDocument(call, ret[1])

\* C9: with branding requested and either logo file absent the call returns a
\* document with the body and neither header nor footer, prints a warning and
\* raises nothing.
C9_AbsentLogoOmitsBranding ==
    (ret # <<>> /\ Branded(call)
        /\ (LeftLogo(call) = "absent" \/ RightLogo(call) = "absent")) =>
            /\ PlainDocument(call, ret[1])
            /\ ret[1].printed # <<>>

\* C10: a logo file that exists and cannot be read is handled as an absent
\* one: no image, neither header nor footer, and the document is returned.
C10_UnreadableLogoAsMissing ==
    (ret # <<>> /\ Branded(call)
        /\ (LeftLogo(call) = "unreadable" \/ RightLogo(call) = "unreadable")) =>
            PlainDocument(call, ret[1])

====
